---- MODULE Spec2Model ----
(***************************************************************************)
(* Model of the query-construction runtime                                 *)
(*   src/tests/main/clients/custom_query_builder/expected_client/          *)
(*       base_operation.py   (GraphQLArgument, GraphQLField)               *)
(* and of the configuration boundary                                       *)
(*   src/graphql_sdk_gen/config.py   (Settings, parse_config_file).        *)
(*                                                                         *)
(* Python strings that the code formats or inspects are sequences of       *)
(* one-character strings, so that f"{idx}_{var_name}" is a concatenation   *)
(* and str.isidentifier() looks at characters.  A dict is a sequence of    *)
(* [k, v] items in insertion order (assignment to an existing key keeps    *)
(* the key's position).  Optional[T] is <<>> (None) or <<x>>.              *)
(*                                                                         *)
(* Spec       callers build one tree under Root with add_subfield and      *)
(*            add_inline_fragment, then render it and collect variables.   *)
(* SpecAlias  the same callers, who also rename Fields with alias().       *)
(* SpecConfig Settings(...) and parse_config_file on a config section.     *)
(***************************************************************************)
EXTENDS Integers, Sequences, FiniteSets, TLC

VARIABLES
    fields,     \* heap: field id -> GraphQLField object
    history,    \* per field: the add_subfield / add_inline_fragment calls made on it
    rendered,   \* Optional: the latest to_ast call and what it returned
    collected,  \* Optional: what get_formatted_variables returned on rendered's field
    prev,       \* Optional: the round before, when it was the same to_ast(idx) call
    kwargs,     \* Optional: the [graphql-sdk-gen] section, also used as **kwargs
    outcome     \* Optional: result of constructing Settings from kwargs

vars == <<fields, history, rendered, collected, prev, kwargs, outcome>>

(***************************************************************************)
(* Bounds and input domains                                                *)
(***************************************************************************)
NumFields == 3
MaxIdx == 0
MaxBuild == 2

FieldIds == 1..NumFields
Indices == 0..MaxIdx

None == <<>>
Some(x) == <<x>>

s_id == <<"i", "d">>
s_id_1 == <<"i", "d", "_", "1">>
s_user == <<"u", "s", "e", "r">>
s_pet == <<"p", "e", "t">>
s_a == <<"a">>
s_b == <<"b">>
s_empty == <<>>

Aliases == {s_empty, s_a, s_b}
TypeNames == {"Cat", "Dog"}

(***************************************************************************)
(* Python built-ins the code relies on                                     *)
(***************************************************************************)
Digits == <<"0", "1", "2", "3", "4", "5", "6", "7", "8", "9">>

RECURSIVE NatToStr(_)
NatToStr(n) ==
    IF n < 10 THEN <<Digits[n + 1]>>
    ELSE NatToStr(n \div 10) \o <<Digits[(n % 10) + 1]>>

\* str(int) as an f-string formats it
IntToStr(n) == IF n < 0 THEN <<"-">> \o NatToStr(-n) ELSE NatToStr(n)

DictKeys(d) == {d[i].k : i \in 1..Len(d)}

\* d[k]
DictGet(d, k) == d[CHOOSE i \in 1..Len(d) : d[i].k = k].v

\* an assigned key moves to the end
DictSet_moves(d, k, v) ==
    LET rest == SelectSeq(d, LAMBDA item : item.k /= k)
    IN Append(rest, [k |-> k, v |-> v])

\* d[k] = v
DictSet(d, k, v) ==
    IF k \in DictKeys(d)
    THEN [i \in 1..Len(d) |-> IF d[i].k = k THEN [k |-> k, v |-> v] ELSE d[i]]
    ELSE Append(d, [k |-> k, v |-> v])

\* d.update(other)
RECURSIVE DictUpdate(_, _)
DictUpdate(d, other) ==
    IF other = <<>> THEN d
    ELSE DictUpdate(DictSet(d, Head(other).k, Head(other).v), Tail(other))

(***************************************************************************)
(* GraphQLArgument                                                         *)
(***************************************************************************)
NameNode(value) == [value |-> value]

VariableNode(name) == [kind |-> "Variable", name |-> name]

ArgumentNode(name, value) == [kind |-> "Argument", name |-> name, value |-> value]

NamedTypeNode(name) == [kind |-> "NamedType", name |-> name]

SelectionSetNode(selections) == [selections |-> selections]

InlineFragmentNode(type_condition, selection_set) ==
    [kind |-> "InlineFragment", type_condition |-> type_condition,
     selection_set |-> selection_set]

FieldNode(name, arguments, selection_set) ==
    [kind |-> "Field", name |-> name, arguments |-> arguments,
     selection_set |-> selection_set]

\* GraphQLArgument(argument_name, argument_value)
GraphQLArgument(argument_name, argument_value) ==
    [name |-> argument_name, value |-> argument_value]

\* GraphQLArgument.to_ast
Argument_to_ast(self) ==
    ArgumentNode(NameNode(self.name), VariableNode(NameNode(self.value)))

(***************************************************************************)
(* GraphQLField                                                            *)
(***************************************************************************)
\* GraphQLField.__init__
GraphQLField(field_name, arguments) ==
    [field_name |-> field_name,
     variables |-> arguments,
     formatted_variables |-> <<>>,
     subfields |-> <<>>,
     alias |-> None,
     inline_fragments |-> <<>>]

\* bool(x) of an Optional[str]: None and "" are both falsy
Truthy(opt) == opt /= None /\ opt[1] /= <<>>

_build_field_name(self) ==
    IF Truthy(self.alias)
    THEN self.alias[1] \o <<":", " ">> \o self.field_name
    ELSE self.field_name

\* the while loop of _format_variable_name
RECURSIVE UniqueNameLoop(_, _, _, _)
UniqueNameLoop(base_name, unique_name, counter, used_names) ==
    IF unique_name \in used_names
    THEN UniqueNameLoop(base_name, base_name \o <<"_">> \o IntToStr(counter),
                        counter + 1, used_names)
    ELSE unique_name

\* the set is left as it was found
_format_variable_name_forgets(idx, var_name, used_names) ==
    LET base_name == IntToStr(idx) \o <<"_">> \o var_name
        unique_name == UniqueNameLoop(base_name, base_name, 1, used_names)
    IN [name |-> unique_name, used_names |-> used_names]

\* the counter starts at 0
_format_variable_name_from0(idx, var_name, used_names) ==
    LET base_name == IntToStr(idx) \o <<"_">> \o var_name
        unique_name == UniqueNameLoop(base_name, base_name, 0, used_names)
    IN [name |-> unique_name, used_names |-> used_names \cup {unique_name}]

\* returns the name and the set as the call leaves it
_format_variable_name(idx, var_name, used_names) ==
    LET base_name == IntToStr(idx) \o <<"_">> \o var_name
        unique_name == UniqueNameLoop(base_name, base_name, 1, used_names)
    IN [name |-> unique_name, used_names |-> used_names \cup {unique_name}]

\* the for loop of _collect_all_variables over self._variables.items();
\* c = [F, used_names, steps, nodes]: the heap, the shared set, and a record of the
\* call: the naming steps so far and the node each Field's to_ast has returned
RECURSIVE CollectLoop(_, _, _, _)
CollectLoop(c, f, idx, items) ==
    IF items = <<>> THEN c
    ELSE LET k == Head(items).k
             v == Head(items).v
             r == _format_variable_name(idx, k, c.used_names)
             entry == [name |-> k, type |-> v.type, value |-> v.value]
         IN CollectLoop(
                [F |-> [c.F EXCEPT ![f].formatted_variables =
                            DictSet(@, r.name, entry)],
                 used_names |-> r.used_names,
                 steps |-> Append(c.steps,
                                  [field |-> f, arg |-> k, before |-> c.used_names,
                                   name |-> r.name, after |-> r.used_names]),
                 nodes |-> c.nodes],
                f, idx, Tail(items))

\* self._formatted_variables is not emptied first
_collect_all_variables_keeps(c, f, idx) ==
    CollectLoop(c, f, idx, c.F[f].variables)

_collect_all_variables(c, f, idx) ==
    CollectLoop([c EXCEPT !.F[f].formatted_variables = <<>>], f, idx,
                c.F[f].variables)

RECURSIVE Field_to_ast(_, _, _, _)
RECURSIVE ToAstList(_, _, _)
RECURSIVE FragmentsLoop(_, _, _)

\* [subfield.to_ast(idx, used_names) for subfield in fs]
ToAstList(c, fs, idx) ==
    IF fs = <<>> THEN [c |-> c, nodes |-> <<>>]
    ELSE LET h == Field_to_ast(c, Head(fs), idx, Some(c.used_names))
             t == ToAstList(h.c, Tail(fs), idx)
         IN [c |-> t.c, nodes |-> <<h.node>> \o t.nodes]

\* for name, subfields in self._inline_fragments.items(): selections.append(...)
FragmentsLoop(c, items, idx) ==
    IF items = <<>> THEN [c |-> c, nodes |-> <<>>]
    ELSE LET h == ToAstList(c, Head(items).v, idx)
             node == InlineFragmentNode(NamedTypeNode(NameNode(Head(items).k)),
                                        SelectionSetNode(h.nodes))
             t == FragmentsLoop(h.c, Tail(items), idx)
         IN [c |-> t.c, nodes |-> <<node>> \o t.nodes]

_build_selections(c, f, idx) ==
    LET subs == ToAstList(c, c.F[f].subfields, idx)
        frags == FragmentsLoop(subs.c, c.F[f].inline_fragments, idx)
    IN [c |-> frags.c, nodes |-> subs.nodes \o frags.nodes]

\* only the subfields are looked at
HasSelections_subfields_only(self) == self.subfields /= <<>>

\* bool(self._subfields or self._inline_fragments)
HasSelections(self) == self.subfields /= <<>> \/ self.inline_fragments /= <<>>

FormattedArgs(formatted_variables) ==
    [i \in 1..Len(formatted_variables) |->
        Argument_to_ast(GraphQLArgument(formatted_variables[i].v.name,
                                        formatted_variables[i].k))]

\* GraphQLField.to_ast(idx, used_names); the shared set of c is replaced by the
\* argument: a fresh set() when it is None
Field_to_ast(c, f, idx, used_names) ==
    LET c0 == [c EXCEPT !.used_names = IF used_names = None THEN {} ELSE used_names[1]]
        c1 == _collect_all_variables(c0, f, idx)
        formatted_args == FormattedArgs(c1.F[f].formatted_variables)
        name == NameNode(_build_field_name(c1.F[f]))
        res == IF HasSelections(c1.F[f])
               THEN LET sel == _build_selections(c1, f, idx)
                    IN [c |-> sel.c,
                        node |-> FieldNode(name, formatted_args,
                                           Some(SelectionSetNode(sel.nodes)))]
               ELSE [c |-> c1, node |-> FieldNode(name, formatted_args, None)]
    IN [c |-> [res.c EXCEPT !.nodes[f] = Some(res.node)], node |-> res.node]

RECURSIVE get_formatted_variables(_, _)
RECURSIVE MergeLoop(_, _, _)

\* for subfield in fs: subfield.get_formatted_variables();
\*                     self._formatted_variables.update(subfield._formatted_variables)
MergeLoop(F, f, fs) ==
    IF fs = <<>> THEN F
    ELSE LET F1 == get_formatted_variables(F, Head(fs))
             F2 == [F1 EXCEPT ![f].formatted_variables =
                        DictUpdate(@, F1[Head(fs)].formatted_variables)]
         IN MergeLoop(F2, f, Tail(fs))

RECURSIVE MergeFragments(_, _, _)
MergeFragments(F, f, items) ==
    IF items = <<>> THEN F
    ELSE MergeFragments(MergeLoop(F, f, Head(items).v), f, Tail(items))

\* the inline-fragment branches are left out
get_formatted_variables_no_fragments(F, f) == MergeLoop(F, f, F[f].subfields)

\* the heap after the call; the returned dict is self._formatted_variables itself
get_formatted_variables(F, f) ==
    MergeFragments(MergeLoop(F, f, F[f].subfields), f, F[f].inline_fragments)

(***************************************************************************)
(* Ownership (spec section 3): a Field exclusively owns its subfields and  *)
(* the Fields of its inline fragments; the tree is a strict forest.  The   *)
(* callers modelled here hand over only a Field nobody owns, and build     *)
(* top-down: a Field is given to one constructed before it.                *)
(***************************************************************************)
SeqRange(s) == {s[i] : i \in 1..Len(s)}

Children(F, p) ==
    SeqRange(F[p].subfields)
    \cup UNION {SeqRange(F[p].inline_fragments[i].v) :
                    i \in 1..Len(F[p].inline_fragments)}

Owned(F, c) == \E p \in FieldIds : c \in Children(F, p)

\* the Field the caller renders: the first one constructed
Root == 1

\* the Fields of the tree under construction
InTree(F, f) == f = Root \/ Owned(F, f)

Ownable(F, p, c) == InTree(F, p) /\ c > p /\ ~Owned(F, c)

\* the tuples *subfields a caller may pass: distinct Fields, in any order
RECURSIVE Tuples(_, _)
Tuples(S, n) ==
    IF n = 0 THEN {<<>>}
    ELSE {<<>>} \cup {<<x>> \o t : x \in S, t \in Tuples(S, n - 1)}

InjectiveTuples(S) ==
    {t \in Tuples(S, Cardinality(S)) : Cardinality(SeqRange(t)) = Len(t)}

\* how much has been built: subfields added, type names registered
RECURSIVE SumOver(_, _)
SumOver(S, g) ==
    IF S = {} THEN 0
    ELSE LET x == CHOOSE y \in S : TRUE IN g[x] + SumOver(S \ {x}, g)

BuildSize(F) ==
    SumOver(FieldIds,
            [f \in FieldIds |->
                Len(F[f].subfields) + Len(F[f].inline_fragments)])

(***************************************************************************)
(* Constructor inputs                                                      *)
(***************************************************************************)
\* arguments={name: {"type": ..., "value": ...}}; values differ per Field
Arguments(f, names) ==
    [i \in 1..Len(names) |->
        [k |-> names[i], v |-> [type |-> "ID", value |-> 10 * f + i]]]

\* alias(alias): records the alias and returns self
alias(self, a) == [self EXCEPT !.alias = Some(a)]

\* The expressions callers construct Fields with, in the fluent style the
\* builder invites: GraphQLField("user", {...}).alias("a").
Construct(f, e) ==
    LET new == GraphQLField(e.field_name, Arguments(f, e.args))
    IN IF e.alias = None THEN new ELSE alias(new, e.alias[1])

Expressions ==
    <<[field_name |-> s_pet, args |-> <<>>, alias |-> None],
      [field_name |-> s_user, args |-> <<s_id>>, alias |-> Some(s_a)],
      [field_name |-> s_user, args |-> <<s_id>>, alias |-> Some(s_b)],
      [field_name |-> s_pet, args |-> <<s_id, s_id_1>>, alias |-> None]>>

\* the r-th program constructs its Fields from Expressions, starting at the r-th
Program(r) ==
    [f \in FieldIds |-> Construct(f, Expressions[((f - 1 + r) % Len(Expressions)) + 1])]

NoHistory ==
    [added |-> <<>>, registered |-> <<>>, branch |-> [t \in TypeNames |-> None]]

NoKwargs == None

(***************************************************************************)
(* Operations on Fields                                                    *)
(***************************************************************************)
BuilderInit ==
    /\ \E r \in 0..(Len(Expressions) - 1) : fields = Program(r)
    /\ history = [f \in FieldIds |-> NoHistory]
    /\ rendered = None
    /\ collected = None
    /\ prev = None
    /\ kwargs = NoKwargs
    /\ outcome = None

\* Lifecycle (spec section 3): a tree is built field by field, then rendered;
\* it is not mutated once rendering has begun.
Building == rendered = None

\* alias(alias)
Alias(f, a) ==
    /\ Building
    /\ InTree(fields, f)
    /\ fields' = [fields EXCEPT ![f] = alias(@, a)]
    /\ UNCHANGED <<history, rendered, collected, prev, kwargs, outcome>>

\* add_subfield(subfield)
AddSubfield(p, c) ==
    /\ Building
    /\ Ownable(fields, p, c)
    /\ fields' = [fields EXCEPT ![p].subfields = Append(@, c)]
    /\ BuildSize(fields') <= MaxBuild
    /\ history' = [history EXCEPT ![p].added = Append(@, c)]
    /\ UNCHANGED <<rendered, collected, prev, kwargs, outcome>>

\* add_inline_fragment(type_name, *subfields)
AddInlineFragment(p, type_name, subfields) ==
    /\ Building
    /\ InTree(fields, p)
    /\ \A i \in 1..Len(subfields) : Ownable(fields, p, subfields[i])
    /\ fields' = [fields EXCEPT ![p].inline_fragments = DictSet(@, type_name, subfields)]
    /\ BuildSize(fields') <= MaxBuild
    /\ history' = [history EXCEPT
                     ![p].registered =
                         IF type_name \in SeqRange(@) THEN @ ELSE Append(@, type_name),
                     ![p].branch[type_name] = Some(subfields)]
    /\ UNCHANGED <<rendered, collected, prev, kwargs, outcome>>

\* to_ast(idx) called with no used_names
ToAst(f, idx) ==
    LET r == Field_to_ast([F |-> fields, used_names |-> {}, steps |-> <<>>,
                           nodes |-> [g \in FieldIds |-> None]],
                          f, idx, None)
    IN /\ f = Root
       /\ fields' = r.c.F
       /\ rendered' = Some([field |-> f, idx |-> idx, node |-> r.node,
                            steps |-> r.c.steps, nodes |-> r.c.nodes])
       /\ collected' = None
       /\ prev' = IF rendered /= None /\ rendered[1].field = f /\ rendered[1].idx = idx
                  THEN Some([node |-> rendered[1].node, variables |-> collected])
                  ELSE None
       /\ UNCHANGED <<history, kwargs, outcome>>

\* get_formatted_variables()
GetFormattedVariables(f) ==
    LET F == get_formatted_variables(fields, f)
    IN /\ InTree(fields, f)
       /\ fields' = F
       /\ collected' = IF rendered /= None /\ rendered[1].field = f
                       THEN Some(F[f].formatted_variables)
                       ELSE collected
       /\ UNCHANGED <<history, rendered, prev, kwargs, outcome>>

Next ==
    \/ \E p, c \in FieldIds : AddSubfield(p, c)
    \/ \E p \in FieldIds, t \in TypeNames :
           \E cs \in InjectiveTuples(FieldIds \ {p}) : AddInlineFragment(p, t, cs)
    \/ \E f \in FieldIds, idx \in Indices : ToAst(f, idx)
    \/ \E f \in FieldIds : GetFormattedVariables(f)

Spec == BuilderInit /\ [][Next]_vars

\* the same callers, who also rename Fields with alias()
NextAlias ==
    \/ \E f \in FieldIds, a \in Aliases : Alias(f, a)
    \/ \E p, c \in FieldIds : AddSubfield(p, c)
    \/ \E f \in FieldIds, idx \in Indices : ToAst(f, idx)
    \/ \E f \in FieldIds : GetFormattedVariables(f)

SpecAlias == BuilderInit /\ [][NextAlias]_vars

(***************************************************************************)
(* Reading a tree and an AST                                               *)
(***************************************************************************)
RECURSIVE TreeFields(_, _)
TreeFields(F, f) == {f} \cup UNION {TreeFields(F, c) : c \in Children(F, f)}

\* the (Field, argument name) declarations of the tree under f
Declarations(F, f) ==
    UNION {{<<g, F[g].variables[i].k>> : i \in 1..Len(F[g].variables)} :
               g \in TreeFields(F, f)}

Selections(node) ==
    IF node.kind = "Field"
    THEN (IF node.selection_set = None THEN <<>> ELSE node.selection_set[1].selections)
    ELSE node.selection_set.selections

\* the variable names that the argument nodes of an AST reference
RECURSIVE AstVariables(_)
AstVariables(node) ==
    (IF node.kind = "Field"
     THEN {node.arguments[i].value.name.value : i \in 1..Len(node.arguments)}
     ELSE {})
    \cup UNION {AstVariables(Selections(node)[i]) : i \in 1..Len(Selections(node))}

Letters ==
    {"a", "b", "c", "d", "e", "f", "g", "h", "i", "j", "k", "l", "m", "n", "o", "p",
     "q", "r", "s", "t", "u", "v", "w", "x", "y", "z",
     "A", "B", "C", "D", "E", "F", "G", "H", "I", "J", "K", "L", "M", "N", "O", "P",
     "Q", "R", "S", "T", "U", "V", "W", "X", "Y", "Z"}

\* GraphQL's Name: /[_A-Za-z][_0-9A-Za-z]*/
IsGraphQLName(s) ==
    /\ Len(s) > 0
    /\ s[1] \in Letters \cup {"_"}
    /\ \A i \in 2..Len(s) : s[i] \in Letters \cup SeqRange(Digits) \cup {"_"}

(***************************************************************************)
(* Claims about variable naming                                            *)
(***************************************************************************)
\* the names given by the latest to_ast, one per naming step
GivenNames == {rendered[1].steps[i].name : i \in 1..Len(rendered[1].steps)}

\* C1 (Uniqueness): after to_ast(idx) on the root with no used_names, followed by
\* get_formatted_variables() on the root, every (Field, argument) declaration of
\* the tree was named exactly once, no two declarations were given the same
\* variable name, and the returned mapping holds exactly one key per declaration.
C1_Uniqueness ==
    collected /= None =>
        LET steps == rendered[1].steps
            decls == Declarations(fields, Root)
        IN /\ {<<steps[i].field, steps[i].arg>> : i \in 1..Len(steps)} = decls
           /\ Len(steps) = Cardinality(decls)
           /\ \A i, j \in 1..Len(steps) : i /= j => steps[i].name /= steps[j].name
           /\ DictKeys(collected[1]) = GivenNames
           /\ Len(collected[1]) = Cardinality(decls)

\* two Fields at different depths declare the same argument name
C1_Witness ==
    /\ collected /= None
    /\ \E g \in Children(fields, Root) :
           /\ <<Root, s_id>> \in Declarations(fields, Root)
           /\ <<g, s_id>> \in Declarations(fields, Root)
    /\ Len(collected[1]) >= 2

\* "i_a_k" for the smallest k >= 1 that is free
SmallestFree(base, used) ==
    LET k == CHOOSE n \in 1..(Cardinality(used) + 1) :
                 /\ (base \o <<"_">> \o IntToStr(n)) \notin used
                 /\ \A j \in 1..(n - 1) : (base \o <<"_">> \o IntToStr(j)) \in used
    IN base \o <<"_">> \o IntToStr(k)

\* the order in which to_ast considers the declarations: a Field's own arguments
\* in order, then its subfields, then its inline-fragment branches
RECURSIVE Preorder(_, _)
RECURSIVE PreorderList(_, _)
RECURSIVE PreorderBranches(_, _)
PreorderList(F, fs) ==
    IF fs = <<>> THEN <<>> ELSE Preorder(F, Head(fs)) \o PreorderList(F, Tail(fs))

PreorderBranches(F, items) ==
    IF items = <<>> THEN <<>>
    ELSE PreorderList(F, Head(items).v) \o PreorderBranches(F, Tail(items))

Preorder(F, f) ==
    [i \in 1..Len(F[f].variables) |-> <<f, F[f].variables[i].k>>]
    \o PreorderList(F, F[f].subfields)
    \o PreorderBranches(F, F[f].inline_fragments)

\* the collision scenario: the root declares nothing and has exactly two
\* subfields, both "user", aliased "a" and "b" in that order, each declaring id
CollisionScenario ==
    /\ rendered /= None
    /\ rendered[1].idx = 0
    /\ fields[Root].variables = <<>>
    /\ fields[Root].inline_fragments = <<>>
    /\ Len(fields[Root].subfields) = 2
    /\ LET x == fields[fields[Root].subfields[1]]
           y == fields[fields[Root].subfields[2]]
       IN /\ x.field_name = s_user /\ x.alias = Some(s_a)
          /\ y.field_name = s_user /\ y.alias = Some(s_b)
          /\ DictKeys(x.variables) = {s_id} /\ DictKeys(y.variables) = {s_id}
          /\ ~HasSelections(x) /\ ~HasSelections(y)

\* C10 (Variable naming step): each step of a to_ast(i) names argument a "i_a" if
\* that is free in usedNames, else "i_a_k" for the smallest free k >= 1; the name
\* was not in usedNames before the step and is in it right after, before the next
\* argument or descendant is considered; nothing is ever removed.  In the
\* collision scenario the two siblings get 0_id and 0_id_1 in that order.
C10_NamingStep ==
    rendered /= None =>
        LET steps == rendered[1].steps
            idx == rendered[1].idx
        IN /\ [i \in 1..Len(steps) |-> <<steps[i].field, steps[i].arg>>]
                  = Preorder(fields, Root)
           /\ \A i \in 1..Len(steps) :
                  LET base == IntToStr(idx) \o <<"_">> \o steps[i].arg
                  IN /\ steps[i].name =
                            IF base \notin steps[i].before THEN base
                            ELSE SmallestFree(base, steps[i].before)
                     /\ steps[i].name \notin steps[i].before
                     /\ steps[i].after = steps[i].before \cup {steps[i].name}
                     /\ steps[i].before =
                            IF i = 1 THEN {} ELSE steps[i - 1].after
           /\ CollisionScenario =>
                  [i \in 1..Len(steps) |-> steps[i].name]
                      = << <<"0", "_", "i", "d">>, <<"0", "_", "i", "d", "_", "1">> >>

C10_Witness ==
    /\ CollisionScenario
    /\ Len(rendered[1].steps) = 2
    /\ rendered[1].steps[2].before = {<<"0", "_", "i", "d">>}

\* C4: every variable name an Argument references once rendering completes is a
\* valid GraphQL identifier.
C4_ValidIdentifiers ==
    rendered /= None =>
        \A name \in AstVariables(rendered[1].node) : IsGraphQLName(name)

(***************************************************************************)
(* Claims about the rendered AST and the aggregated variables              *)
(***************************************************************************)
\* the argument nodes named a among those g's to_ast rendered
ArgumentsNamed(g, a) ==
    LET args == rendered[1].nodes[g][1].arguments
    IN {i \in 1..Len(args) : args[i].name.value = a}

\* C2 (Query/payload match): after to_ast on the root followed by
\* get_formatted_variables() on the root, the variable names referenced anywhere
\* in the rendered AST are exactly the keys of the returned mapping, and each
\* Field's rendered argument a references a key whose entry is {name: a, type,
\* value} of that same Field.
C2_QueryPayloadMatch ==
    collected /= None =>
        /\ AstVariables(rendered[1].node) = DictKeys(collected[1])
        /\ \A g \in TreeFields(fields, Root) :
               /\ rendered[1].nodes[g] /= None
               /\ \A i \in 1..Len(fields[g].variables) :
                      LET a == fields[g].variables[i].k
                          v == fields[g].variables[i].v
                          refs == ArgumentsNamed(g, a)
                      IN /\ Cardinality(refs) = 1
                         /\ \A j \in refs :
                                LET key == rendered[1].nodes[g][1].arguments[j]
                                               .value.name.value
                                IN /\ key \in DictKeys(collected[1])
                                   /\ DictGet(collected[1], key) =
                                          [name |-> a, type |-> v.type,
                                           value |-> v.value]

\* siblings declare the same argument, one of them inside an inline fragment
C2_Witness ==
    /\ collected /= None
    /\ \E g, h \in Children(fields, Root) :
           /\ g /= h
           /\ g \in SeqRange(fields[Root].subfields)
           /\ h \notin SeqRange(fields[Root].subfields)
           /\ s_id \in DictKeys(fields[g].variables)
           /\ s_id \in DictKeys(fields[h].variables)

\* C3 (Determinism): rendering the same tree again with the same index and an
\* empty used_names returns the same AST, and get_formatted_variables() on the
\* root then returns the same mapping, whether or not get_formatted_variables()
\* was called between the two renders.
C3_Determinism ==
    prev /= None =>
        /\ rendered[1].node = prev[1].node
        /\ (prev[1].variables /= None /\ collected /= None)
               => collected[1] = prev[1].variables[1]

\* rendered, collected, rendered again, collected again; a descendant has arguments
C3_Witness ==
    /\ prev /= None
    /\ prev[1].variables /= None
    /\ collected /= None
    /\ Len(collected[1]) > Len(fields[Root].variables)
    /\ fields[Root].variables /= <<>>

\* C5 (Leaf minimality): the node to_ast returns for a Field carries a selection
\* set if and only if the Field has at least one subfield or at least one
\* registered inline-fragment branch, whether or not it has arguments.
C5_LeafMinimality ==
    rendered /= None =>
        \A g \in TreeFields(fields, Root) :
            /\ rendered[1].nodes[g] /= None
            /\ rendered[1].nodes[g][1].selection_set /= None
                   <=> (history[g].added /= <<>> \/ history[g].registered /= <<>>)

\* a leaf with arguments, under a root whose only selection is an empty branch
C5_Witness ==
    /\ rendered /= None
    /\ \E g \in TreeFields(fields, Root) :
           /\ fields[g].variables /= <<>>
           /\ Children(fields, g) = {}
           /\ rendered[1].nodes[g][1].selection_set = None
    /\ \E g \in TreeFields(fields, Root) :
           /\ fields[g].subfields = <<>>
           /\ Children(fields, g) = {}
           /\ rendered[1].nodes[g][1].selection_set /= None

\* C6 (Order preservation): the rendered selection set of a Field is its rendered
\* subfields in the order they were added, then one inline-fragment node per
\* registered type name in the order the names were first registered, each typed
\* on its name and holding exactly the fields of the latest branch registered
\* under that name, in order; no field of one branch appears in another.
C6_OrderPreservation ==
    rendered /= None =>
        \A g \in TreeFields(fields, Root) :
            LET h == history[g]
                sel == Selections(rendered[1].nodes[g][1])
                n == Len(h.added)
            IN /\ Len(sel) = n + Len(h.registered)
               /\ \A i \in 1..n : sel[i] = rendered[1].nodes[h.added[i]][1]
               /\ \A j \in 1..Len(h.registered) :
                      LET t == h.registered[j]
                          branch == h.branch[t][1]
                          inner == Selections(sel[n + j])
                      IN /\ sel[n + j].kind = "InlineFragment"
                         /\ sel[n + j].type_condition.name.value = t
                         /\ Len(inner) = Len(branch)
                         /\ \A k \in 1..Len(branch) :
                                inner[k] = rendered[1].nodes[branch[k]][1]
                         /\ \A j2 \in 1..Len(h.registered) :
                                j2 /= j =>
                                    SeqRange(branch)
                                    \cap SeqRange(h.branch[h.registered[j2]][1]) = {}

\* two branches, each with a field of its own
C6_Witness ==
    /\ rendered /= None
    /\ Len(history[Root].registered) = 2
    /\ \A t \in TypeNames : history[Root].branch[t] /= None
                            /\ history[Root].branch[t][1] /= <<>>

\* C7 (Alias precedence): when an alias has been set on a Field, by any alias
\* string, the rendered field name is "{alias}: {fieldName}"; when none was ever
\* set it is exactly fieldName.
C7_AliasPrecedence ==
    rendered /= None =>
        \A g \in TreeFields(fields, Root) :
            rendered[1].nodes[g][1].name.value =
                IF fields[g].alias /= None
                THEN fields[g].alias[1] \o <<":", " ">> \o fields[g].field_name
                ELSE fields[g].field_name

(***************************************************************************)
(* Configuration: Settings and parse_config_file                           *)
(***************************************************************************)
n_graphql_client == <<"g", "r", "a", "p", "h", "q", "l", "_", "c", "l", "i", "e", "n", "t">>
n_my_pkg == <<"m", "y", "_", "p", "k", "g">>
n_class == <<"c", "l", "a", "s", "s">>
n_1abc == <<"1", "a", "b", "c">>

\* what Path(path) finds on disk; the process runs in the directory "."
FileSystem ==
    [p \in {"schema.graphql", "queries", "pkg", ".", "nowhere"} |->
        CASE p = "schema.graphql" -> "file"
          [] p = "nowhere" -> "absent"
          [] OTHER -> "dir"]

\* Path(path).exists()
PathExists(path) == FileSystem[path] /= "absent"

\* Path(path).is_dir()
PathIsDir(path) == FileSystem[path] = "dir"

\* str.isidentifier() on ASCII text
IsIdentifier(name) ==
    /\ Len(name) > 0
    /\ name[1] \in Letters \cup {"_"}
    /\ \A i \in 2..Len(name) : name[i] \in Letters \cup SeqRange(Digits) \cup {"_"}

\* keyword.kwlist
Keywords ==
    {<<"F", "a", "l", "s", "e">>, <<"N", "o", "n", "e">>, <<"T", "r", "u", "e">>,
     <<"a", "n", "d">>, <<"a", "s">>, <<"a", "s", "s", "e", "r", "t">>,
     <<"a", "s", "y", "n", "c">>, <<"a", "w", "a", "i", "t">>,
     <<"b", "r", "e", "a", "k">>, <<"c", "l", "a", "s", "s">>,
     <<"c", "o", "n", "t", "i", "n", "u", "e">>, <<"d", "e", "f">>, <<"d", "e", "l">>,
     <<"e", "l", "i", "f">>, <<"e", "l", "s", "e">>, <<"e", "x", "c", "e", "p", "t">>,
     <<"f", "i", "n", "a", "l", "l", "y">>, <<"f", "o", "r">>, <<"f", "r", "o", "m">>,
     <<"g", "l", "o", "b", "a", "l">>, <<"i", "f">>, <<"i", "m", "p", "o", "r", "t">>,
     <<"i", "n">>, <<"i", "s">>, <<"l", "a", "m", "b", "d", "a">>,
     <<"n", "o", "n", "l", "o", "c", "a", "l">>, <<"n", "o", "t">>, <<"o", "r">>,
     <<"p", "a", "s", "s">>, <<"r", "a", "i", "s", "e">>,
     <<"r", "e", "t", "u", "r", "n">>, <<"t", "r", "y">>, <<"w", "h", "i", "l", "e">>,
     <<"w", "i", "t", "h">>, <<"y", "i", "e", "l", "d">>}

\* keyword.iskeyword(name)
IsKeyword(name) == name \in Keywords

\* fields(Settings), and those without a default
SettingsFields ==
    {"schema_path", "queries_path", "target_package_name", "target_package_path"}

RequiredFields == {"schema_path", "queries_path"}

InvalidConfiguration(path, why) ==
    [kind |-> "InvalidConfiguration", path |-> path, why |-> why]

\* _assert_path_exists: the exception raised, if any
_assert_path_exists(path) ==
    IF ~PathExists(path) THEN Some(InvalidConfiguration(path, "doesn't exist"))
    ELSE None

\* _assert_path_is_valid_directory: the exception raised, if any
_assert_path_is_valid_directory(path) ==
    IF ~PathIsDir(path) THEN Some(InvalidConfiguration(path, "isn't a directory"))
    ELSE None

\* _assert_string_is_valid_package_name: the value returned; nothing is raised
_assert_string_is_valid_package_name(name) == IsIdentifier(name) /\ ~IsKeyword(name)

\* __post_init__: the first exception raised, if any
__post_init__(self) ==
    IF _assert_path_exists(self.schema_path) /= None
    THEN _assert_path_exists(self.schema_path)
    ELSE IF _assert_path_exists(self.queries_path) /= None
    THEN _assert_path_exists(self.queries_path)
    ELSE LET ignored == _assert_string_is_valid_package_name(self.target_package_name)
         IN _assert_path_is_valid_directory(self.target_package_path)

\* Settings(**kw): the dataclass __init__ binds the keywords (TypeError on a
\* missing required one or an unexpected one), fills the defaults, then runs
\* __post_init__
Settings(kw) ==
    IF ~(RequiredFields \subseteq DOMAIN kw) \/ ~(DOMAIN kw \subseteq SettingsFields)
    THEN [kind |-> "TypeError"]
    ELSE LET self ==
                 [kind |-> "Settings",
                  schema_path |-> kw["schema_path"],
                  queries_path |-> kw["queries_path"],
                  target_package_name |->
                      IF "target_package_name" \in DOMAIN kw
                      THEN kw["target_package_name"] ELSE n_graphql_client,
                  target_package_path |->
                      IF "target_package_path" \in DOMAIN kw
                      THEN kw["target_package_path"] ELSE "."]
             raised == __post_init__(self)
         IN IF raised /= None THEN raised[1] ELSE self

\* parse_config_file: config is the parsed file, None when it has no
\* [graphql-sdk-gen] section
parse_config_file(config) ==
    IF config = None
    THEN [kind |-> "MissingConfiguration", section |-> FALSE, fields |-> {}]
    ELSE LET made == Settings(config[1])
         IN IF made.kind = "TypeError"
            THEN [kind |-> "MissingConfiguration", section |-> TRUE,
                  fields |-> SettingsFields \ DOMAIN config[1]]
            ELSE made

\* section contents: each key absent, or present with one of a few values
KeyChoices ==
    [schema_path : {None, Some("schema.graphql"), Some("nowhere")},
     queries_path : {None, Some("queries"), Some("nowhere")},
     target_package_name : {None, Some(n_my_pkg), Some(n_class), Some(n_1abc)},
     target_package_path : {None, Some("pkg"), Some("schema.graphql"), Some("nowhere")},
     unknown_key : {None, Some("x")}]

MakeKwargs(o) == [k \in {k \in DOMAIN o : o[k] /= None} |-> o[k][1]]

ConfigInit ==
    /\ \/ kwargs = None
       \/ \E o \in KeyChoices : kwargs = Some(MakeKwargs(o))
    /\ outcome = None
    /\ fields = <<>>
    /\ history = <<>>
    /\ rendered = None
    /\ collected = None
    /\ prev = None

\* a caller constructs Settings(**kwargs) directly
ConstructSettings ==
    /\ kwargs /= None
    /\ outcome = None
    /\ outcome' = Some([via |-> "Settings", result |-> Settings(kwargs[1])])
    /\ UNCHANGED <<fields, history, rendered, collected, prev, kwargs>>

\* parse_config_file(file_path) on a file holding kwargs as its section
ParseConfigFile ==
    /\ outcome = None
    /\ outcome' = Some([via |-> "parse_config_file", result |-> parse_config_file(kwargs)])
    /\ UNCHANGED <<fields, history, rendered, collected, prev, kwargs>>

NextConfig == ConstructSettings \/ ParseConfigFile

SpecConfig == ConfigInit /\ [][NextConfig]_vars

\* the checks __post_init__ is meant to make, on what Settings was given
GivenName(kw) ==
    IF "target_package_name" \in DOMAIN kw THEN kw["target_package_name"]
    ELSE n_graphql_client

GivenPackagePath(kw) ==
    IF "target_package_path" \in DOMAIN kw THEN kw["target_package_path"] ELSE "."

AllChecksPass(kw) ==
    /\ PathExists(kw["schema_path"])
    /\ PathExists(kw["queries_path"])
    /\ PathIsDir(GivenPackagePath(kw))
    /\ IsIdentifier(GivenName(kw))
    /\ ~IsKeyword(GivenName(kw))

\* C8: constructing Settings fails with an invalid-configuration error whenever
\* schema_path or queries_path does not exist, target_package_path is not a
\* directory, or target_package_name is not a legal identifier or is a keyword;
\* a Settings object exists only if all four checks pass.
C8_SettingsFailFast ==
    (/\ outcome /= None
     /\ outcome[1].via = "Settings"
     /\ outcome[1].result.kind /= "TypeError") =>
        /\ ~AllChecksPass(kwargs[1]) => outcome[1].result.kind = "InvalidConfiguration"
        /\ outcome[1].result.kind = "Settings" => AllChecksPass(kwargs[1])

\* C9: for every section lacking queries_path, parse_config_file fails with a
\* missing-configuration error naming exactly the fields whose absence makes
\* construction fail; a missing-configuration error is raised only when the
\* section or a required key is absent.
C9_MissingNamesAbsentFields ==
    (outcome /= None /\ outcome[1].via = "parse_config_file") =>
        /\ (kwargs /= None /\ "queries_path" \notin DOMAIN kwargs[1]) =>
               /\ outcome[1].result.kind = "MissingConfiguration"
               /\ outcome[1].result.fields = RequiredFields \ DOMAIN kwargs[1]
        /\ outcome[1].result.kind = "MissingConfiguration" =>
               \/ kwargs = None
               \/ ~(RequiredFields \subseteq DOMAIN kwargs[1])

====
